---- MODULE Spec2Model ----
(***************************************************************************)
(* Model of the hand-written KZG backend of the tutorial                   *)
(* (examples/chapter15_custom_backend_implementation.rs): the scalar field *)
(* CustomFr over the BLS12-381 group order r, the points CustomG1 and the  *)
(* multi-scalar multiplication CustomMSM.                                  *)
(*                                                                         *)
(* TLC integers are 32 bits wide, so a u64 is kept at its full width as    *)
(* four 16-bit digits, least significant first, and the u128 / i128        *)
(* expressions of the source are evaluated on those digits.  A CustomFr is *)
(* the record [limbs |-> <<l0, l1, l2, l3>>] of four such u64 values;      *)
(* limbs[i] of the source is limbs[i + 1] here.                            *)
(***************************************************************************)
EXTENDS Integers, Sequences, FiniteSets, TLC

----------------------------------------------------------------------------
(* Machine arithmetic: u64 values and the u128 / i128 expressions on them  *)

\* radix of one digit of a u64
D == 2 ^ 16

\* the u64 with the given 16-bit groups, most significant group first, as
\* they read in a hexadecimal literal 0xhhhh_hhhh_hhhh_hhhh
U64(h3, h2, h1, h0) == <<h0, h1, h2, h3>>

U64Zero == U64(0, 0, 0, 0)
U64One == U64(0, 0, 0, 1)
U64Max == U64(\hffff, \hffff, \hffff, \hffff)

\* a < b on u64 values
U64Lt(a, b) ==
    \/ a[4] < b[4]
    \/ a[4] = b[4] /\ a[3] < b[3]
    \/ a[4] = b[4] /\ a[3] = b[3] /\ a[2] < b[2]
    \/ a[4] = b[4] /\ a[3] = b[3] /\ a[2] = b[2] /\ a[1] < b[1]

\* sum = (a as u128) + (b as u128) + carry, with carry in {0, 1}:
\* lo is `sum as u64`, hi is `sum >> 64`
AddU128(a, b, carry) ==
    LET t1 == a[1] + b[1] + carry
        t2 == a[2] + b[2] + (t1 \div D)
        t3 == a[3] + b[3] + (t2 \div D)
        t4 == a[4] + b[4] + (t3 \div D)
    IN  [lo |-> <<t1 % D, t2 % D, t3 % D, t4 % D>>, hi |-> t4 \div D]

\* diff = (a as i128) - (b as i128) - borrow, with borrow in {0, 1}:
\* lo is `diff as u64` when diff >= 0 and `(diff + (1 << 64)) as u64` when
\* diff < 0; borrow is 1 exactly when diff < 0
SubI128(a, b, borrow) ==
    LET t1 == a[1] - b[1] - borrow
        t2 == a[2] - b[2] - (IF t1 < 0 THEN 1 ELSE 0)
        t3 == a[3] - b[3] - (IF t2 < 0 THEN 1 ELSE 0)
        t4 == a[4] - b[4] - (IF t3 < 0 THEN 1 ELSE 0)
    IN  [lo |-> <<t1 % D, t2 % D, t3 % D, t4 % D>>,
         borrow |-> IF t4 < 0 THEN 1 ELSE 0]

\* prod = (a as u128) * (b as u128) + (c as u128) + carry, carry a u64:
\* lo is `prod as u64`, hi is `prod >> 64`.  The digits of b are split into
\* bytes b1..b8 so that no partial product leaves 31 bits; e_i and o_i collect
\* the partial products of weight 2^(16 i) and 2^(16 i + 8).
MulAddU128(a, b, c, carry) ==
    LET b1 == b[1] % 256
        b2 == b[1] \div 256
        b3 == b[2] % 256
        b4 == b[2] \div 256
        b5 == b[3] % 256
        b6 == b[3] \div 256
        b7 == b[4] % 256
        b8 == b[4] \div 256
        e0 == a[1] * b1 + c[1] + carry[1]
        o0 == a[1] * b2
        e1 == a[1] * b3 + a[2] * b1 + c[2] + carry[2]
        o1 == a[1] * b4 + a[2] * b2
        e2 == a[1] * b5 + a[2] * b3 + a[3] * b1 + c[3] + carry[3]
        o2 == a[1] * b6 + a[2] * b4 + a[3] * b2
        e3 == a[1] * b7 + a[2] * b5 + a[3] * b3 + a[4] * b1 + c[4] + carry[4]
        o3 == a[1] * b8 + a[2] * b6 + a[3] * b4 + a[4] * b2
        e4 == a[2] * b7 + a[3] * b5 + a[4] * b3
        o4 == a[2] * b8 + a[3] * b6 + a[4] * b4
        e5 == a[3] * b7 + a[4] * b5
        o5 == a[3] * b8 + a[4] * b6
        e6 == a[4] * b7
        o6 == a[4] * b8
        t0 == e0 + (o0 % 256) * 256
        t1 == e1 + (o1 % 256) * 256 + (o0 \div 256) + (t0 \div D)
        t2 == e2 + (o2 % 256) * 256 + (o1 \div 256) + (t1 \div D)
        t3 == e3 + (o3 % 256) * 256 + (o2 \div 256) + (t2 \div D)
        t4 == e4 + (o4 % 256) * 256 + (o3 \div 256) + (t3 \div D)
        t5 == e5 + (o5 % 256) * 256 + (o4 \div 256) + (t4 \div D)
        t6 == e6 + (o6 % 256) * 256 + (o5 \div 256) + (t5 \div D)
        t7 == (o6 \div 256) + (t6 \div D)
    IN  [lo |-> <<t0 % D, t1 % D, t2 % D, t3 % D>>,
         hi |-> <<t4 % D, t5 % D, t6 % D, t7>>]

\* u64::to_be_bytes: the eight bytes of a u64, most significant first
U64ToBeBytes(a) ==
    <<a[4] \div 256, a[4] % 256, a[3] \div 256, a[3] % 256,
      a[2] \div 256, a[2] % 256, a[1] \div 256, a[1] % 256>>

\* u64::from_be_bytes: the u64 of eight bytes, most significant first
U64FromBeBytes(b) ==
    <<b[7] * 256 + b[8], b[5] * 256 + b[6], b[3] * 256 + b[4], b[1] * 256 + b[2]>>

----------------------------------------------------------------------------
(* CustomFr: the scalar field                                              *)

\* r = 0x73eda753299d7d483339d80809a1d80553bda402fffe5bfeffffffff00000001
MODULUS ==
    << U64(\hffff, \hffff, \h0000, \h0001),
       U64(\h53bd, \ha402, \hfffe, \h5bfe),
       U64(\h3339, \hd808, \h09a1, \hd805),
       U64(\h73ed, \ha753, \h299d, \h7d48) >>

Fr_zero == [limbs |-> <<U64Zero, U64Zero, U64Zero, U64Zero>>]

Fr_one == [limbs |-> <<U64One, U64Zero, U64Zero, U64Zero>>]

Fr_is_zero(self) == \A i \in 1..4 : self.limbs[i] = U64Zero

Fr_is_one(self) == self = Fr_one

\* scans the limbs from the most significant one; equality is invalid
RECURSIVE Fr_is_valid_from(_, _)
Fr_is_valid_from(self, i) ==
    IF i < 1 THEN FALSE
    ELSE IF U64Lt(self.limbs[i], MODULUS[i]) THEN TRUE
    ELSE IF U64Lt(MODULUS[i], self.limbs[i]) THEN FALSE
    ELSE Fr_is_valid_from(self, i - 1)

\* Fr_is_valid that also accepts the modulus itself
Fr_is_valid_inclusive(self) == Fr_is_valid_from(self, 4) \/ self.limbs = MODULUS

Fr_is_valid(self) == Fr_is_valid_from(self, 4)

\* the teaching code performs no Montgomery conversion
Fr_to_montgomery(self) == self

Fr_from_montgomery(self) == self

\* one subtraction of the modulus, limb by limb; the borrow out of the top
\* limb is dropped
RECURSIVE Fr_mod_reduce_loop(_, _, _)
Fr_mod_reduce_loop(result, i, borrow) ==
    IF i > 4 THEN result
    ELSE LET diff == SubI128(result[i], MODULUS[i], borrow)
         IN  Fr_mod_reduce_loop([result EXCEPT ![i] = diff.lo], i + 1, diff.borrow)

Fr_mod_reduce(self) ==
    IF Fr_is_valid(self) THEN self
    ELSE [limbs |-> Fr_mod_reduce_loop(self.limbs, 1, 0)]

Fr_from_u64(val) ==
    Fr_to_montgomery([Fr_zero EXCEPT !.limbs[1] = val])

Fr_from_u64_arr(limbs) == Fr_mod_reduce([limbs |-> limbs])

\* limb-wise addition with carry; the carry out of the top limb is dropped
RECURSIVE Fr_add_loop(_, _, _, _, _)
Fr_add_loop(self, other, result, i, carry) ==
    IF i > 4 THEN result
    ELSE LET sum == AddU128(self.limbs[i], other.limbs[i], carry)
         IN  Fr_add_loop(self, other, [result EXCEPT ![i] = sum.lo], i + 1, sum.hi)

\* Fr_add with the final reduction left out
Fr_add_unreduced(self, other) ==
    [limbs |-> Fr_add_loop(self, other, Fr_zero.limbs, 1, 0)]

Fr_add(self, other) ==
    Fr_mod_reduce([limbs |-> Fr_add_loop(self, other, Fr_zero.limbs, 1, 0)])

\* limb-wise subtraction with borrow; a final borrow adds the modulus back
RECURSIVE Fr_sub_loop(_, _, _, _, _)
Fr_sub_loop(self, other, result, i, borrow) ==
    IF i > 4 THEN [limbs |-> result, borrow |-> borrow]
    ELSE LET diff == SubI128(self.limbs[i], other.limbs[i], borrow)
         IN  Fr_sub_loop(self, other, [result EXCEPT ![i] = diff.lo], i + 1, diff.borrow)

\* Fr_sub that keeps the wrapped difference when the subtraction borrows
Fr_sub_wrapping(self, other) ==
    [limbs |-> Fr_sub_loop(self, other, Fr_zero.limbs, 1, 0).limbs]

Fr_sub(self, other) ==
    LET d == Fr_sub_loop(self, other, Fr_zero.limbs, 1, 0)
        result == [limbs |-> d.limbs]
    IN  IF d.borrow # 0 THEN Fr_add(result, [limbs |-> MODULUS]) ELSE result

\* schoolbook product into eight limbs: the inner loop over j for one i
RECURSIVE Fr_mul_inner(_, _, _, _, _, _)
Fr_mul_inner(self, other, result, i, j, carry) ==
    IF j > 4 THEN [result EXCEPT ![i + 4] = carry]
    ELSE LET prod == MulAddU128(self.limbs[i], other.limbs[j], result[i + j - 1], carry)
         IN  Fr_mul_inner(self, other, [result EXCEPT ![i + j - 1] = prod.lo],
                          i, j + 1, prod.hi)

RECURSIVE Fr_mul_outer(_, _, _, _)
Fr_mul_outer(self, other, result, i) ==
    IF i > 4 THEN result
    ELSE Fr_mul_outer(self, other, Fr_mul_inner(self, other, result, i, 1, U64Zero), i + 1)

\* the eight-limb product of the two operands
Fr_mul_wide(self, other) ==
    Fr_mul_outer(self, other, [k \in 1..8 |-> U64Zero], 1)

\* keeps the four low limbs of the product and reduces them once
Fr_mul(self, other) ==
    LET result == Fr_mul_wide(self, other)
    IN  Fr_mod_reduce([limbs |-> <<result[1], result[2], result[3], result[4]>>])

Fr_neg(self) ==
    IF Fr_is_zero(self) THEN self ELSE Fr_sub([limbs |-> MODULUS], self)

Fr_square(self) == Fr_mul(self, self)

\* the 32 bytes of the element, most significant limb and byte first
Fr_to_bytes_be(self) ==
    LET standard == Fr_from_montgomery(self)
    IN  U64ToBeBytes(standard.limbs[4]) \o U64ToBeBytes(standard.limbs[3])
        \o U64ToBeBytes(standard.limbs[2]) \o U64ToBeBytes(standard.limbs[1])

\* Ok(element) or Err: limbs[3 - i] is read from bytes[8 i .. 8 i + 7]
Fr_from_bytes_be(bytes) ==
    LET limbs == [k \in 1..4 |-> U64FromBeBytes(SubSeq(bytes, 8 * (4 - k) + 1, 8 * (4 - k) + 8))]
        element == [limbs |-> limbs]
    IN  IF Fr_is_valid(element)
        THEN [tag |-> "Ok", value |-> Fr_to_montgomery(element)]
        ELSE [tag |-> "Err"]

\* TLC passes operator arguments unevaluated; comparing a value with itself
\* evaluates it, so that a loop split in two halves finishes the first half
\* before it enters the second
Evaluated(v) == v = v

\* one iteration of the square-and-multiply loop: iteration k (0..255) reads
\* bit k % 8 of the k \div 8-th byte from the end of exp_bytes
Fr_pow_step(st, exp_bytes, k) ==
    LET byte == exp_bytes[32 - (k \div 8)]
        i == k % 8
    IN  [result |-> IF (byte \div (2 ^ i)) % 2 = 1
                    THEN Fr_mul(st.result, st.base) ELSE st.result,
         base |-> Fr_mul(st.base, st.base)]

\* iterations lo .. hi - 1 of the loop, in order
RECURSIVE Fr_pow_loop(_, _, _, _)
Fr_pow_loop(st, exp_bytes, lo, hi) ==
    IF hi - lo = 1 THEN Fr_pow_step(st, exp_bytes, lo)
    ELSE LET mid == (lo + hi) \div 2
             first == Fr_pow_loop(st, exp_bytes, lo, mid)
         IN  IF Evaluated(first) THEN Fr_pow_loop(first, exp_bytes, mid, hi) ELSE first

Fr_pow(self, exp) ==
    LET exp_bytes == Fr_to_bytes_be(exp)
    IN  Fr_pow_loop([result |-> Fr_one, base |-> self], exp_bytes, 0, 256).result

\* Fr_inverse without the check for zero
Fr_inverse_unchecked(self) ==
    LET exp == Fr_from_u64_arr(<<SubI128(MODULUS[1], U64(0, 0, 0, 2), 0).lo,
                                  MODULUS[2], MODULUS[3], MODULUS[4]>>)
    IN  [tag |-> "value", value |-> Fr_pow(self, exp)]

\* a value, or the panic of the zero element
Fr_inverse(self) ==
    IF Fr_is_zero(self) THEN [tag |-> "panic"]
    ELSE LET exp == Fr_from_u64_arr(<<SubI128(MODULUS[1], U64(0, 0, 0, 2), 0).lo,
                                       MODULUS[2], MODULUS[3], MODULUS[4]>>)
         IN  [tag |-> "value", value |-> Fr_pow(self, exp)]

----------------------------------------------------------------------------
(* CustomG1: the group of points.  A point is the record [x, y, z] of three *)
(* field elements; the derived == of the source compares the three          *)
(* coordinates limb by limb, which is = on these records.                   *)

G1_identity == [x |-> Fr_zero, y |-> Fr_one, z |-> Fr_zero]

G1_is_identity(self) == Fr_is_zero(self.z)

G1_generator ==
    [x |-> Fr_from_u64(U64(0, 0, 0, 1)), y |-> Fr_from_u64(U64(0, 0, 0, 2)), z |-> Fr_one]

\* x and y are multiplied by two, z is kept
G1_double(self) ==
    IF G1_is_identity(self) THEN self
    ELSE [x |-> Fr_mul(self.x, Fr_from_u64(U64(0, 0, 0, 2))),
          y |-> Fr_mul(self.y, Fr_from_u64(U64(0, 0, 0, 2))),
          z |-> self.z]

\* G1_add without the case of two equal operands
G1_add_componentwise(self, other) ==
    IF G1_is_identity(self) THEN other
    ELSE IF G1_is_identity(other) THEN self
    ELSE [x |-> Fr_add(self.x, other.x),
          y |-> Fr_add(self.y, other.y),
          z |-> Fr_add(self.z, other.z)]

\* an operand with z = 0 returns the other operand; equal operands are
\* doubled; otherwise the coordinates are added one by one
G1_add(self, other) ==
    IF G1_is_identity(self) THEN other
    ELSE IF G1_is_identity(other) THEN self
    ELSE IF self = other THEN G1_double(self)
    ELSE [x |-> Fr_add(self.x, other.x),
          y |-> Fr_add(self.y, other.y),
          z |-> Fr_add(self.z, other.z)]

G1_neg(self) ==
    IF G1_is_identity(self) THEN self
    ELSE [x |-> self.x, y |-> Fr_neg(self.y), z |-> self.z]

\* one iteration of the double-and-add loop: iteration k (0..255) reads bit
\* k % 8 of the k \div 8-th byte from the end of scalar_bytes
G1_mul_scalar_step(st, scalar_bytes, k) ==
    LET byte == scalar_bytes[32 - (k \div 8)]
        i == k % 8
    IN  [result |-> IF (byte \div (2 ^ i)) % 2 = 1
                    THEN G1_add(st.result, st.addend) ELSE st.result,
         addend |-> G1_double(st.addend)]

\* iterations lo .. hi - 1 of the loop, in order
RECURSIVE G1_mul_scalar_loop(_, _, _, _)
G1_mul_scalar_loop(st, scalar_bytes, lo, hi) ==
    IF hi - lo = 1 THEN G1_mul_scalar_step(st, scalar_bytes, lo)
    ELSE LET mid == (lo + hi) \div 2
             first == G1_mul_scalar_loop(st, scalar_bytes, lo, mid)
         IN  IF Evaluated(first) THEN G1_mul_scalar_loop(first, scalar_bytes, mid, hi)
             ELSE first

G1_mul_scalar(self, scalar) ==
    LET scalar_bytes == Fr_to_bytes_be(scalar)
    IN  G1_mul_scalar_loop([result |-> G1_identity, addend |-> self],
                           scalar_bytes, 0, 256).result

G1_is_valid(self) == TRUE

\* the 64 bytes x || y; z is not written
G1_to_bytes(self) == Fr_to_bytes_be(self.x) \o Fr_to_bytes_be(self.y)

\* G1_from_bytes that reads y from the first 32 bytes and x from the last
G1_from_bytes_swapped(bytes) ==
    IF Len(bytes) # 64 THEN [tag |-> "Err"]
    ELSE LET x == Fr_from_bytes_be(SubSeq(bytes, 33, 64))
             y == Fr_from_bytes_be(SubSeq(bytes, 1, 32))
         IN  IF x.tag = "Err" THEN [tag |-> "Err"]
             ELSE IF y.tag = "Err" THEN [tag |-> "Err"]
             ELSE [tag |-> "Ok", value |-> [x |-> x.value, y |-> y.value, z |-> Fr_one]]

\* Ok(point) or Err: the length is checked, then each coordinate is decoded
\* with from_bytes_be, whose error is passed on; z is set to one
G1_from_bytes(bytes) ==
    IF Len(bytes) # 64 THEN [tag |-> "Err"]
    ELSE LET x == Fr_from_bytes_be(SubSeq(bytes, 1, 32))
             y == Fr_from_bytes_be(SubSeq(bytes, 33, 64))
         IN  IF x.tag = "Err" THEN [tag |-> "Err"]
             ELSE IF y.tag = "Err" THEN [tag |-> "Err"]
             ELSE [tag |-> "Ok", value |-> [x |-> x.value, y |-> y.value, z |-> Fr_one]]

----------------------------------------------------------------------------
(* CustomMSM: multi-scalar multiplication.  Ok(point) or Err.               *)

\* the loop over the zipped pairs, from pair i on
RECURSIVE naive_msm_loop(_, _, _, _)
naive_msm_loop(points, scalars, result, i) ==
    IF i > Len(points) THEN result
    ELSE naive_msm_loop(points, scalars,
                        G1_add(result, G1_mul_scalar(points[i], scalars[i])), i + 1)

\* naive_msm whose accumulator starts from the first point instead of the
\* identity
naive_msm_seeded(points, scalars) ==
    IF Len(points) # Len(scalars) THEN [tag |-> "Err"]
    ELSE [tag |-> "Ok",
          value |-> naive_msm_loop(points, scalars,
                                   IF points = <<>> THEN G1_generator ELSE points[1], 1)]

naive_msm(points, scalars) ==
    IF Len(points) # Len(scalars) THEN [tag |-> "Err"]
    ELSE [tag |-> "Ok", value |-> naive_msm_loop(points, scalars, G1_identity, 1)]

\* pippenger_msm without the length check: the pairs are zipped up to the
\* shorter sequence
pippenger_msm_zipped(points, scalars) ==
    LET m == IF Len(points) < Len(scalars) THEN Len(points) ELSE Len(scalars)
    IN  IF m = 0 THEN [tag |-> "Ok", value |-> G1_identity]
        ELSE naive_msm(SubSeq(points, 1, m), SubSeq(scalars, 1, m))

\* the length check, the empty case, then the naive method
pippenger_msm(points, scalars) ==
    IF Len(points) # Len(scalars) THEN [tag |-> "Err"]
    ELSE IF Len(points) = 0 THEN [tag |-> "Ok", value |-> G1_identity]
    ELSE naive_msm(points, scalars)

----------------------------------------------------------------------------
(* CustomFFT: the transform.  An array of n elements is a sequence;        *)
(* coeffs[i] of the source is coeffs[i + 1] here.  Indices and lengths are  *)
(* usize values far below 2^31.                                            *)

\* a & b on usize values
RECURSIVE BitAnd(_, _)
BitAnd(a, b) ==
    IF a = 0 \/ b = 0 THEN 0
    ELSE (a % 2) * (b % 2) + 2 * BitAnd(a \div 2, b \div 2)

\* a ^ b on usize values
RECURSIVE BitXor(_, _)
BitXor(a, b) ==
    IF a = 0 THEN b
    ELSE IF b = 0 THEN a
    ELSE (((a % 2) + (b % 2)) % 2) + 2 * BitXor(a \div 2, b \div 2)

\* usize::count_ones
RECURSIVE count_ones(_)
count_ones(a) == IF a = 0 THEN 0 ELSE (a % 2) + count_ones(a \div 2)

\* is_power_of_two written as n & (n - 1) == 0, which also accepts zero
is_power_of_two_or_zero(a) == a = 0 \/ BitAnd(a, a - 1) = 0

\* usize::is_power_of_two: exactly one bit is set
is_power_of_two(a) == count_ones(a) = 1

\* coeffs.swap(i, j), i and j counted from zero
Swap(coeffs, i, j) ==
    [coeffs EXCEPT ![i + 1] = coeffs[j + 1], ![j + 1] = coeffs[i + 1]]

\* the while loop of bit_reverse_permute: clears the set bits of j from bit
\* downwards until it meets a clear one
RECURSIVE bit_reverse_carry(_, _)
bit_reverse_carry(j, bit) ==
    IF BitAnd(j, bit) # 0 THEN bit_reverse_carry(BitXor(j, bit), bit \div 2)
    ELSE [j |-> j, bit |-> bit]

\* bit_reverse_loop that swaps whenever i and j differ
RECURSIVE bit_reverse_loop_unordered(_, _, _)
bit_reverse_loop_unordered(coeffs, i, j) ==
    IF i >= Len(coeffs) THEN coeffs
    ELSE LET c == bit_reverse_carry(j, Len(coeffs) \div 2)
             j2 == BitXor(c.j, c.bit)
         IN  bit_reverse_loop_unordered(IF i # j2 THEN Swap(coeffs, i, j2) ELSE coeffs,
                                        i + 1, j2)

\* the for loop of bit_reverse_permute from index i on, j carried along
RECURSIVE bit_reverse_loop(_, _, _)
bit_reverse_loop(coeffs, i, j) ==
    IF i >= Len(coeffs) THEN coeffs
    ELSE LET c == bit_reverse_carry(j, Len(coeffs) \div 2)
             j2 == BitXor(c.j, c.bit)
         IN  bit_reverse_loop(IF i < j2 THEN Swap(coeffs, i, j2) ELSE coeffs, i + 1, j2)

bit_reverse_permute(coeffs) == bit_reverse_loop(coeffs, 1, 0)

\* butterfly whose second output is v - u
butterfly_reversed(coeffs, a, b) ==
    LET u == coeffs[a + 1]
        v == coeffs[b + 1]
    IN  [coeffs EXCEPT ![a + 1] = Fr_add(u, v), ![b + 1] = Fr_sub(v, u)]

\* the butterfly on the positions a and b = a + m/2: (u, v) becomes
\* (u + v, u - v); no twiddle factor is applied
butterfly(coeffs, a, b) ==
    LET u == coeffs[a + 1]
        v == coeffs[b + 1]
    IN  [coeffs EXCEPT ![a + 1] = Fr_add(u, v), ![b + 1] = Fr_sub(u, v)]

\* for j in 0..m/2, from j on, within the block that starts at i
RECURSIVE ntt_block(_, _, _, _)
ntt_block(coeffs, m, i, j) ==
    IF j >= m \div 2 THEN coeffs
    ELSE ntt_block(butterfly(coeffs, i + j, i + j + m \div 2), m, i, j + 1)

\* for i in (0..n).step_by(m), from i on
RECURSIVE ntt_stage(_, _, _)
ntt_stage(coeffs, m, i) ==
    IF i >= Len(coeffs) THEN coeffs
    ELSE ntt_stage(ntt_block(coeffs, m, i, 0), m, i + m)

\* while m <= n, from m on
RECURSIVE ntt_stages(_, _)
ntt_stages(coeffs, m) ==
    IF m > Len(coeffs) THEN coeffs
    ELSE ntt_stages(ntt_stage(coeffs, m, 0), 2 * m)

\* a / d on a u64 a and a divisor 0 < d < 2^15, digit by digit from the top
U64DivSmall(a, d) ==
    LET q4 == a[4] \div d
        r4 == a[4] % d
        q3 == (r4 * D + a[3]) \div d
        r3 == (r4 * D + a[3]) % d
        q2 == (r3 * D + a[2]) \div d
        r2 == (r3 * D + a[2]) % d
        q1 == (r2 * D + a[1]) \div d
    IN  <<q1, q2, q3, q4>>

\* the inverse branch: every element is replaced by from_u64 of its lowest
\* limb divided by n as an integer; the other limbs are not read
ntt_scale(coeffs) ==
    LET n_val == Len(coeffs)
    IN  IF n_val > 0
        THEN [k \in 1..Len(coeffs) |-> Fr_from_u64(U64DivSmall(coeffs[k].limbs[1], n_val))]
        ELSE coeffs

\* Ok or Err, and the array as the call leaves it: the length check, the
\* bit-reversal permutation, the butterfly stages m = 2, 4, ..., n and, for
\* the inverse transform, the scaling
ntt(coeffs, inverse) ==
    IF ~is_power_of_two(Len(coeffs)) THEN [tag |-> "Err", coeffs |-> coeffs]
    ELSE LET transformed == ntt_stages(bit_reverse_permute(coeffs), 2)
         IN  [tag |-> "Ok",
              coeffs |-> IF inverse THEN ntt_scale(transformed) ELSE transformed]

----------------------------------------------------------------------------
(* CustomFr as text.  A string is the sequence of its characters, each a   *)
(* one-character string; all characters used are ASCII, so that lengths in *)
(* bytes and in characters agree.                                          *)

\* the digits of {:02x}, by value + 1
LowerHex ==
    <<"0", "1", "2", "3", "4", "5", "6", "7", "8", "9", "a", "b", "c", "d", "e", "f">>

UpperHex ==
    <<"0", "1", "2", "3", "4", "5", "6", "7", "8", "9", "A", "B", "C", "D", "E", "F">>

\* char::to_digit(16): the value of a hexadecimal digit of either case, or -1
HexValue(c) ==
    IF \E v \in 1..16 : LowerHex[v] = c THEN (CHOOSE v \in 1..16 : LowerHex[v] = c) - 1
    ELSE IF \E v \in 1..16 : UpperHex[v] = c THEN (CHOOSE v \in 1..16 : UpperHex[v] = c) - 1
    ELSE -1

\* "0x" and then two lower-case digits for each of the 32 bytes of
\* to_bytes_be, the most significant byte first
RECURSIVE Fr_display_bytes(_, _)
Fr_display_bytes(bytes, k) ==
    IF k > Len(bytes) THEN <<>>
    ELSE <<LowerHex[(bytes[k] \div 16) + 1], LowerHex[(bytes[k] % 16) + 1]>>
         \o Fr_display_bytes(bytes, k + 1)

Fr_display(self) == <<"0", "x">> \o Fr_display_bytes(Fr_to_bytes_be(self), 1)

\* str::strip_prefix("0x").unwrap_or(hex_str)
strip_prefix_0x(hex_str) ==
    IF Len(hex_str) >= 2 /\ hex_str[1] = "0" /\ hex_str[2] = "x"
    THEN SubSeq(hex_str, 3, Len(hex_str))
    ELSE hex_str

\* the digit loop of u64::from_str_radix(_, 16): result = result * 16 + digit,
\* checked; Ok(u64) or Err
RECURSIVE from_str_radix_digits(_, _, _)
from_str_radix_digits(digits, k, result) ==
    IF k > Len(digits) THEN [tag |-> "Ok", value |-> result]
    ELSE IF HexValue(digits[k]) < 0 THEN [tag |-> "Err"]
    ELSE LET t1 == result[1] * 16 + HexValue(digits[k])
             t2 == result[2] * 16 + (t1 \div D)
             t3 == result[3] * 16 + (t2 \div D)
             t4 == result[4] * 16 + (t3 \div D)
         IN  IF t4 >= D THEN [tag |-> "Err"]
             ELSE from_str_radix_digits(digits, k + 1, <<t1 % D, t2 % D, t3 % D, t4 % D>>)

\* u64::from_str_radix(src, 16): an empty string and a lone sign are errors,
\* a leading "+" is skipped, "-" is not a digit of an unsigned number
u64_from_str_radix(src) ==
    IF src = <<>> \/ src = <<"+">> \/ src = <<"-">> THEN [tag |-> "Err"]
    ELSE from_str_radix_digits(IF src[1] = "+" THEN Tail(src) ELSE src, 1, U64Zero)

\* the loop for i in (0..4).rev(), from i on: the last 16 characters that
\* remain are parsed into limbs[i], so that the least significant characters
\* go to limbs[3]; Ok(limbs) or Err
RECURSIVE Fr_from_hex_loop(_, _, _)
Fr_from_hex_loop(remaining, limbs, i) ==
    IF i < 0 \/ remaining = <<>> THEN [tag |-> "Ok", value |-> limbs]
    ELSE LET take == IF Len(remaining) < 16 THEN Len(remaining) ELSE 16
             limb_str == SubSeq(remaining, Len(remaining) - take + 1, Len(remaining))
             parsed == u64_from_str_radix(limb_str)
         IN  IF parsed.tag = "Err" THEN [tag |-> "Err"]
             ELSE Fr_from_hex_loop(SubSeq(remaining, 1, Len(remaining) - take),
                                   [limbs EXCEPT ![i + 1] = parsed.value], i - 1)

\* Ok(element) or Err
Fr_from_hex(hex_str) ==
    LET stripped == strip_prefix_0x(hex_str)
    IN  IF Len(stripped) > 64 THEN [tag |-> "Err"]
        ELSE LET parsed == Fr_from_hex_loop(stripped, Fr_zero.limbs, 3)
             IN  IF parsed.tag = "Err" THEN [tag |-> "Err"]
                 ELSE [tag |-> "Ok", value |-> Fr_mod_reduce([limbs |-> parsed.value])]

----------------------------------------------------------------------------
(* TestMemoryPool<T> of tests/chapter11_test.rs, with T = u32: a Vec<T> is  *)
(* a sequence of numbers and T::default() is 0.                            *)

\* Vec::clear: the vector without its elements
Vec_clear(obj) == <<>>

TestMemoryPool_new(capacity, max_size) ==
    [pool |-> <<>>, capacity |-> capacity, max_size |-> max_size]

\* Vec::resize(new_len, value): truncates, or extends with value
Vec_resize(obj, new_len, value) ==
    [k \in 1..new_len |-> IF k <= Len(obj) THEN obj[k] ELSE value]

\* the pool after the call and the vector returned: the vector pushed last,
\* or a fresh one of capacity defaults when the pool is empty
TestMemoryPool_get(self) ==
    IF self.pool # <<>>
    THEN [self |-> [self EXCEPT !.pool = SubSeq(self.pool, 1, Len(self.pool) - 1)],
          out |-> self.pool[Len(self.pool)]]
    ELSE [self |-> self, out |-> [k \in 1..self.capacity |-> 0]]

\* TestMemoryPool_put without the test of the pool's length
TestMemoryPool_put_unbounded(self, obj) ==
    [self EXCEPT !.pool = Append(self.pool, Vec_resize(Vec_clear(obj), self.capacity, 0))]

\* the pool after the call: below max_size the object is cleared, resized to
\* capacity and pushed; otherwise it is dropped
TestMemoryPool_put(self, obj) ==
    IF Len(self.pool) < self.max_size
    THEN [self EXCEPT !.pool = Append(self.pool, Vec_resize(Vec_clear(obj), self.capacity, 0))]
    ELSE self

TestMemoryPool_size(self) == Len(self.pool)

----------------------------------------------------------------------------
(* TestPerformanceMonitor of tests/chapter11_test.rs.  The closure passed   *)
(* to measure is given by the result it returns and the time it takes;     *)
(* a Duration is a number of ticks.                                        *)

TestPerformanceMetrics_default ==
    [operations_count |-> 0, total_time |-> 0, error_count |-> 0]

TestPerformanceMonitor_new == [metrics |-> TestPerformanceMetrics_default]

\* TestPerformanceMonitor_measure that passes an Err on before it counts
TestPerformanceMonitor_measure_early_return(self, result, duration) ==
    IF result.tag = "Err" THEN [self |-> self, out |-> result]
    ELSE [self |-> [metrics |->
                       [operations_count |-> self.metrics.operations_count + 1,
                        total_time |-> self.metrics.total_time + duration,
                        error_count |-> self.metrics.error_count]],
          out |-> result]

\* the monitor after the call and the result returned
TestPerformanceMonitor_measure(self, result, duration) ==
    [self |-> [metrics |->
                  [operations_count |-> self.metrics.operations_count + 1,
                   total_time |-> self.metrics.total_time + duration,
                   error_count |-> IF result.tag = "Err"
                                   THEN self.metrics.error_count + 1
                                   ELSE self.metrics.error_count]],
     out |-> result]

TestPerformanceMonitor_get_metrics(self) == self.metrics

TestPerformanceMonitor_reset(self) == [metrics |-> TestPerformanceMetrics_default]

----------------------------------------------------------------------------
(* Integers of the specification. A natural number below 2^272 is the     *)
(* sequence of its seventeen base-2^16 digits, least significant first;    *)
(* these operators do not use the limb arithmetic above.                   *)

NatIdx == 1..17

\* the integer value limbs[0] + limbs[1]*2^64 + limbs[2]*2^128 + limbs[3]*2^192
Val(x) == x.limbs[1] \o x.limbs[2] \o x.limbs[3] \o x.limbs[4] \o <<0>>

\* the element with the given integer value (below 2^256)
FrOfVal(u) == [limbs |-> <<SubSeq(u, 1, 4), SubSeq(u, 5, 8), SubSeq(u, 9, 12), SubSeq(u, 13, 16)>>]

\* the modulus r as an integer
RVal == Val([limbs |-> MODULUS])

NatZero == [k \in NatIdx |-> 0]

NatLt(u, v) ==
    \E k \in NatIdx : u[k] < v[k] /\ \A m \in NatIdx : m > k => u[m] = v[m]

\* the digits k, k + 1, ... of u + v + carry (the sum is below 2^272)
RECURSIVE NatAddFrom(_, _, _, _)
NatAddFrom(u, v, k, carry) ==
    IF k \notin NatIdx THEN <<>>
    ELSE LET t == u[k] + v[k] + carry
         IN  <<t % D>> \o NatAddFrom(u, v, k + 1, t \div D)

NatAdd(u, v) == NatAddFrom(u, v, 1, 0)

\* the digits k, k + 1, ... of u - v - borrow, for v <= u
RECURSIVE NatSubFrom(_, _, _, _)
NatSubFrom(u, v, k, borrow) ==
    IF k \notin NatIdx THEN <<>>
    ELSE LET t == u[k] - v[k] - borrow
         IN  <<t % D>> \o NatSubFrom(u, v, k + 1, IF t < 0 THEN 1 ELSE 0)

NatSub(u, v) == NatSubFrom(u, v, 1, 0)

\* u mod r, for u < 2 r
NatModOnce(u) == IF NatLt(u, RVal) THEN u ELSE NatSub(u, RVal)

\* (u + v) mod r, for u, v < r
AddMod(u, v) == NatModOnce(NatAdd(u, v))

\* (u - v) mod r, for u, v < r
SubMod(u, v) == IF NatLt(u, v) THEN NatSub(NatAdd(u, RVal), v) ELSE NatSub(u, v)

\* bit k (0 = least significant) of u
NatBit(u, k) == (u[(k \div 16) + 1] \div (2 ^ (k % 16))) % 2

\* (u * v) mod r, for u, v < r: the bits hi - 1 down to lo of v are folded
\* into acc by acc := 2 acc + bit * u (mod r)
RECURSIVE MulModBits(_, _, _, _, _)
MulModBits(acc, u, v, lo, hi) ==
    IF hi - lo = 1
    THEN LET dbl == AddMod(acc, acc)
         IN  IF NatBit(v, lo) = 1 THEN AddMod(dbl, u) ELSE dbl
    ELSE LET mid == (lo + hi) \div 2
             upper == MulModBits(acc, u, v, mid, hi)
         IN  IF Evaluated(upper) THEN MulModBits(upper, u, v, lo, mid) ELSE upper

MulMod(u, v) == MulModBits(NatZero, u, v, 0, 256)

\* the integer encoded by 32 bytes, most significant byte first
ValOfBytes(bytes) ==
    [k \in NatIdx |-> IF 2 * k > 32 THEN 0
                      ELSE bytes[33 - 2 * k] * 256 + bytes[34 - 2 * k]]

\* the 32 bytes, most significant first, of an integer below 2^256
BytesOfVal(u) ==
    [m \in 1..32 |-> LET d == u[((32 - m) \div 2) + 1]
                     IN  IF (32 - m) % 2 = 0 THEN d % 256 ELSE d \div 256]

\* the element is the canonical representative of its residue class
Canonical(x) == NatLt(Val(x), RVal)

----------------------------------------------------------------------------
(* The program: one field element under computation.  A run constructs an  *)
(* element, then applies field operations to it, each taking its second    *)
(* operand from Operands; an element can be written to the wire and read   *)
(* back.                                                                   *)

\* number of field operations, or of point operations, applied in one run
MaxOps == 2

\* arguments of from_u64
U64Inputs ==
    { U64(0, 0, 0, 1), U64(0, 0, 0, 2), U64(0, 0, 0, 100), U64(0, 0, 0, 123), U64Max }

\* arguments of from_u64_arr: 2^128, the modulus itself, 2^256 - 1
ArrInputs ==
    { <<U64Zero, U64Zero, U64One, U64Zero>>,
      MODULUS,
      <<U64Max, U64Max, U64Max, U64Max>> }

\* r - 1, r, r + 1 and 2^256 - 1 as integers
RMinusOne == NatSub(RVal, Val(Fr_one))
RPlusOne == NatAdd(RVal, Val(Fr_one))
AllOnes == Val([limbs |-> <<U64Max, U64Max, U64Max, U64Max>>])

\* 2^192 * (top limb of r), an integer below r
TopLimbOnly == Val([limbs |-> <<U64Zero, U64Zero, U64Zero, MODULUS[4]>>])

\* 32-byte buffers supplied from outside: the encodings of r - 1, r, r + 1 and
\* 2^256 - 1; of TopLimbOnly (below r with an equal top limb), of
\* TopLimbOnly - 1 (a smaller top limb over larger low limbs) and of
\* TopLimbOnly + 2^192 - 1 (above r with an equal top limb)
BytesInputs ==
    { BytesOfVal(RMinusOne), BytesOfVal(RVal), BytesOfVal(RPlusOne), BytesOfVal(AllOnes),
      BytesOfVal(TopLimbOnly),
      BytesOfVal(NatSub(TopLimbOnly, Val(Fr_one))),
      BytesOfVal(Val([limbs |-> <<U64Max, U64Max, U64Max, MODULUS[4]>>])) }

\* second operands of add, sub and mul: 1, 456, 2^64 - 1 and r - 1
Operands ==
    { Fr_one, Fr_from_u64(U64(0, 0, 0, 456)), Fr_from_u64(U64Max), FrOfVal(RMinusOne) }

\* exponents of pow
Exponents == { Fr_from_u64(U64(0, 0, 0, 3)) }

\* pow and inverse run 256 iterations of two multiplications; they are
\* applied to elements made by these constructors
PowSources == { "zero", "from_u64", "from_u64_arr" }

VARIABLES
    acc,    \* the element held by the program
    last,   \* the last call: its name, its arguments and what it returned
    wire,   \* the 32 bytes in transit, <<>> when there are none
    n,      \* number of field, point or transform operations applied so far
    pt,     \* the point held by the program
    coeffs, \* the array of elements held by the program
    pool,   \* the TestMemoryPool<u32> held by the program
    monitor,  \* the TestPerformanceMonitor held by the program
    measured  \* the results of the closures measured since the last reset

\* the state of the programs of the transform, the pool and the monitor
others == <<coeffs, pool, monitor, measured>>

vars == <<acc, last, wire, n, pt, coeffs, pool, monitor, measured>>

\* the transform, the pool and the monitor before anything is done to them
OthersInit ==
    /\ coeffs = <<>>
    /\ pool = TestMemoryPool_new(0, 0)
    /\ monitor = TestPerformanceMonitor_new
    /\ measured = <<>>

Init ==
    /\ acc = Fr_zero
    /\ last = [op |-> "zero", out |-> Fr_zero]
    /\ wire = <<>>
    /\ n = 0
    /\ pt = G1_identity
    /\ OthersInit

\* nothing has been done to the element made by zero()
Fresh == last.op = "zero" /\ wire = <<>>

Panicked == last.op = "inverse" /\ last.out.tag = "panic"

\* a field operation may be applied
Running == wire = <<>> /\ ~Panicked /\ n < MaxOps

One ==
    /\ Fresh
    /\ acc' = Fr_one
    /\ last' = [op |-> "one", out |-> Fr_one]
    /\ UNCHANGED <<wire, n, pt>>
    /\ UNCHANGED others

FromU64(val) ==
    /\ Fresh
    /\ acc' = Fr_from_u64(val)
    /\ last' = [op |-> "from_u64", val |-> val, out |-> acc']
    /\ UNCHANGED <<wire, n, pt>>
    /\ UNCHANGED others

FromU64Arr(limbs) ==
    /\ Fresh
    /\ acc' = Fr_from_u64_arr(limbs)
    /\ last' = [op |-> "from_u64_arr", limbs |-> limbs, out |-> acc']
    /\ UNCHANGED <<wire, n, pt>>
    /\ UNCHANGED others

\* a buffer arrives from outside
Receive(bytes) ==
    /\ Fresh
    /\ wire' = bytes
    /\ last' = [op |-> "receive"]
    /\ UNCHANGED <<acc, n, pt>>
    /\ UNCHANGED others

\* to_bytes_be of the element held
Serialize ==
    /\ wire = <<>>
    /\ ~Panicked
    /\ wire' = Fr_to_bytes_be(acc)
    /\ last' = [op |-> "to_bytes_be", self |-> acc, out |-> wire']
    /\ UNCHANGED <<acc, n, pt>>
    /\ UNCHANGED others

\* from_bytes_be of the bytes in transit; on Err the element held stays
Deserialize ==
    /\ wire # <<>>
    /\ LET r == Fr_from_bytes_be(wire)
       IN  /\ acc' = IF r.tag = "Ok" THEN r.value ELSE acc
           /\ last' = [op |-> "from_bytes_be", origin |-> last.op, self |-> acc,
                       bytes |-> wire, out |-> r]
    /\ wire' = <<>>
    /\ UNCHANGED <<n, pt>>
    /\ UNCHANGED others

Add(other) ==
    /\ Running
    /\ acc' = Fr_add(acc, other)
    /\ last' = [op |-> "add", self |-> acc, other |-> other, out |-> acc']
    /\ n' = n + 1
    /\ UNCHANGED <<wire, pt>>
    /\ UNCHANGED others

Sub(other) ==
    /\ Running
    /\ acc' = Fr_sub(acc, other)
    /\ last' = [op |-> "sub", self |-> acc, other |-> other, out |-> acc']
    /\ n' = n + 1
    /\ UNCHANGED <<wire, pt>>
    /\ UNCHANGED others

Mul(other) ==
    /\ Running
    /\ acc' = Fr_mul(acc, other)
    /\ last' = [op |-> "mul", self |-> acc, other |-> other, out |-> acc']
    /\ n' = n + 1
    /\ UNCHANGED <<wire, pt>>
    /\ UNCHANGED others

Neg ==
    /\ Running
    /\ acc' = Fr_neg(acc)
    /\ last' = [op |-> "neg", self |-> acc, out |-> acc']
    /\ n' = n + 1
    /\ UNCHANGED <<wire, pt>>
    /\ UNCHANGED others

Square ==
    /\ Running
    /\ acc' = Fr_square(acc)
    /\ last' = [op |-> "square", self |-> acc, out |-> acc']
    /\ n' = n + 1
    /\ UNCHANGED <<wire, pt>>
    /\ UNCHANGED others

Pow(exp) ==
    /\ Running
    /\ last.op \in PowSources
    /\ acc' = Fr_pow(acc, exp)
    /\ last' = [op |-> "pow", self |-> acc, other |-> exp, out |-> acc']
    /\ n' = n + 1
    /\ UNCHANGED <<wire, pt>>
    /\ UNCHANGED others

\* a panic ends the run; the element held is not replaced
Inverse ==
    /\ Running
    /\ last.op \in PowSources
    /\ LET r == Fr_inverse(acc)
       IN  /\ acc' = IF r.tag = "value" THEN r.value ELSE acc
           /\ last' = [op |-> "inverse", self |-> acc, out |-> r]
    /\ n' = n + 1
    /\ UNCHANGED <<wire, pt>>
    /\ UNCHANGED others

Next ==
    \/ One
    \/ \E val \in U64Inputs : FromU64(val)
    \/ \E limbs \in ArrInputs : FromU64Arr(limbs)
    \/ \E bytes \in BytesInputs : Receive(bytes)
    \/ Serialize
    \/ Deserialize
    \/ \E other \in Operands : Add(other)
    \/ \E other \in Operands : Sub(other)
    \/ \E other \in Operands : Mul(other)
    \/ Neg
    \/ Square
    \/ \E exp \in Exponents : Pow(exp)
    \/ Inverse

Spec == Init /\ [][Next]_vars

----------------------------------------------------------------------------
(* The point program: one point under computation.  A run takes the        *)
(* identity, the generator, a decoded buffer or the result of a            *)
(* multi-scalar multiplication, then applies point operations to it, add   *)
(* taking its second operand from PointOperands; a point can be written to *)
(* the wire and read back.  The field element of the field program stays   *)
(* zero().                                                                 *)

\* one step of the chain that builds InfinityAlias: p and q are two unequal
\* points with z = 2^k; p is added to sum when bit k of r is set, and
\* add(p, q), add(p, neg(q)) are two unequal points with z = 2^(k + 1)
InfinityAliasStep(st, k) ==
    [sum |-> IF NatBit(RVal, k) = 1 THEN G1_add(st.sum, st.p) ELSE st.sum,
     p |-> G1_add(st.p, st.q),
     q |-> G1_add(st.p, G1_neg(st.q))]

\* steps lo .. hi - 1 of the chain, in order
RECURSIVE InfinityAliasLoop(_, _, _)
InfinityAliasLoop(st, lo, hi) ==
    IF hi - lo = 1 THEN InfinityAliasStep(st, lo)
    ELSE LET mid == (lo + hi) \div 2
             first == InfinityAliasLoop(st, lo, mid)
         IN  IF Evaluated(first) THEN InfinityAliasLoop(first, mid, hi) ELSE first

\* a point made from generator() by double, neg and add alone, about 900
\* calls: starting from generator() and generator().double(), the chain sums
\* points whose z coordinates are the powers of two in the binary expansion
\* of r, so that z = r mod r = 0 while x and y are not those of identity()
InfinityAlias ==
    InfinityAliasLoop([sum |-> G1_identity, p |-> G1_generator,
                       q |-> G1_double(G1_generator)], 0, 255).sum

\* scalars of mul_scalar and of the multi-scalar multiplication
Small(k) == Fr_from_u64(U64(0, 0, 0, k))

Scalars == { Small(1), Small(2), Small(3), Small(5) }

\* second operands of add
PointOperands ==
    { G1_identity, G1_generator, G1_double(G1_generator), G1_neg(G1_generator),
      InfinityAlias }

\* buffers supplied from outside: the encoding of (r - 1, 1), one whose y
\* encodes r, and buffers of 63 and 65 bytes
PointBytesInputs ==
    { BytesOfVal(RMinusOne) \o BytesOfVal(Val(Fr_one)),
      BytesOfVal(Val(Fr_one)) \o BytesOfVal(RVal),
      SubSeq(BytesOfVal(RMinusOne) \o BytesOfVal(Val(Fr_one)), 1, 63),
      BytesOfVal(RMinusOne) \o BytesOfVal(Val(Fr_one)) \o <<0>> }

\* inputs (points, scalars) of the multi-scalar multiplication: the empty
\* input, unequal lengths, the pair of tests::test_msm_consistency, and three
\* points of which two are equal, in two orders, and InfinityAlias alone
MsmInputs ==
    { [points |-> <<>>, scalars |-> <<>>],
      [points |-> <<G1_generator>>, scalars |-> <<>>],
      [points |-> <<>>, scalars |-> <<Small(1)>>],
      [points |-> <<G1_generator, G1_double(G1_generator)>>, scalars |-> <<Small(3)>>],
      [points |-> <<G1_generator, G1_double(G1_generator)>>,
       scalars |-> <<Small(3), Small(5)>>],
      [points |-> <<G1_generator, G1_generator, G1_double(G1_generator)>>,
       scalars |-> <<Small(1), Small(1), Small(1)>>],
      [points |-> <<G1_generator, G1_double(G1_generator), G1_generator>>,
       scalars |-> <<Small(1), Small(1), Small(1)>>],
      [points |-> <<InfinityAlias>>, scalars |-> <<Small(1)>>] }

\* mul_scalar runs 256 iterations of an addition and a doubling; it is
\* applied to the first point of a run, made by one of these calls
MulScalarSources ==
    { "identity", "generator", "from_bytes", "naive_msm", "pippenger_msm" }

InitG1 ==
    /\ acc = Fr_zero
    /\ pt = G1_identity
    /\ last = [op |-> "identity", out |-> G1_identity]
    /\ wire = <<>>
    /\ n = 0
    /\ OthersInit

\* nothing has been done to the point made by identity()
FreshG1 == last.op = "identity" /\ wire = <<>>

\* a point operation may be applied
RunningG1 == wire = <<>> /\ n < MaxOps

G1Generator ==
    /\ FreshG1
    /\ pt' = G1_generator
    /\ last' = [op |-> "generator", out |-> pt']
    /\ UNCHANGED <<acc, wire, n>>
    /\ UNCHANGED others

\* a buffer arrives from outside
G1Receive(bytes) ==
    /\ FreshG1
    /\ wire' = bytes
    /\ last' = [op |-> "receive"]
    /\ UNCHANGED <<acc, pt, n>>
    /\ UNCHANGED others

\* to_bytes of the point held
G1ToBytes ==
    /\ wire = <<>>
    /\ wire' = G1_to_bytes(pt)
    /\ last' = [op |-> "to_bytes", self |-> pt, out |-> wire']
    /\ UNCHANGED <<acc, pt, n>>
    /\ UNCHANGED others

\* from_bytes of the bytes in transit; on Err the point held stays
G1FromBytes ==
    /\ wire # <<>>
    /\ LET r == G1_from_bytes(wire)
       IN  /\ pt' = IF r.tag = "Ok" THEN r.value ELSE pt
           /\ last' = [op |-> "from_bytes", origin |-> last.op, self |-> pt,
                       bytes |-> wire, out |-> r]
    /\ wire' = <<>>
    /\ UNCHANGED <<acc, n>>
    /\ UNCHANGED others

G1Add(other) ==
    /\ RunningG1
    /\ pt' = G1_add(pt, other)
    /\ last' = [op |-> "add", self |-> pt, other |-> other, out |-> pt']
    /\ n' = n + 1
    /\ UNCHANGED <<acc, wire>>
    /\ UNCHANGED others

G1Double ==
    /\ RunningG1
    /\ pt' = G1_double(pt)
    /\ last' = [op |-> "double", self |-> pt, out |-> pt']
    /\ n' = n + 1
    /\ UNCHANGED <<acc, wire>>
    /\ UNCHANGED others

G1Neg ==
    /\ RunningG1
    /\ pt' = G1_neg(pt)
    /\ last' = [op |-> "neg", self |-> pt, out |-> pt']
    /\ n' = n + 1
    /\ UNCHANGED <<acc, wire>>
    /\ UNCHANGED others

G1MulScalar(scalar) ==
    /\ RunningG1
    /\ n = 0
    /\ last.op \in MulScalarSources
    /\ pt' = G1_mul_scalar(pt, scalar)
    /\ last' = [op |-> "mul_scalar", self |-> pt, scalar |-> scalar, out |-> pt']
    /\ n' = n + 1
    /\ UNCHANGED <<acc, wire>>
    /\ UNCHANGED others

\* on Err the point held stays
NaiveMsm(input) ==
    /\ FreshG1
    /\ LET r == naive_msm(input.points, input.scalars)
       IN  /\ pt' = IF r.tag = "Ok" THEN r.value ELSE pt
           /\ last' = [op |-> "naive_msm", points |-> input.points,
                       scalars |-> input.scalars, out |-> r]
    /\ UNCHANGED <<acc, wire, n>>
    /\ UNCHANGED others

PippengerMsm(input) ==
    /\ FreshG1
    /\ LET r == pippenger_msm(input.points, input.scalars)
       IN  /\ pt' = IF r.tag = "Ok" THEN r.value ELSE pt
           /\ last' = [op |-> "pippenger_msm", points |-> input.points,
                       scalars |-> input.scalars, out |-> r]
    /\ UNCHANGED <<acc, wire, n>>
    /\ UNCHANGED others

NextG1 ==
    \/ G1Generator
    \/ \E bytes \in PointBytesInputs : G1Receive(bytes)
    \/ G1ToBytes
    \/ G1FromBytes
    \/ \E other \in PointOperands : G1Add(other)
    \/ G1Double
    \/ G1Neg
    \/ \E scalar \in Scalars : G1MulScalar(scalar)
    \/ \E input \in MsmInputs : NaiveMsm(input)
    \/ \E input \in MsmInputs : PippengerMsm(input)

SpecG1 == InitG1 /\ [][NextG1]_vars

----------------------------------------------------------------------------
(* The transform program: one array of field elements.  A run loads an     *)
(* array, then applies ntt, forward or inverse, and bit_reverse_permute to *)
(* it in place.                                                            *)

\* number of transforms applied to one array
MaxTransforms == 3

\* arrays of canonical elements: of lengths 0, 1, 2, 3, 4, 6 and 8, of small
\* values and of values next to the modulus
NttInputs ==
    { <<>>,
      <<Small(1)>>,
      <<FrOfVal(RMinusOne)>>,
      <<Small(1), Small(2)>>,
      <<Small(1), Small(2), Small(3)>>,
      <<Small(1), Small(2), Small(3), Small(4)>>,
      <<FrOfVal(RMinusOne), Small(5), FrOfVal(TopLimbOnly), Fr_from_u64(U64Max)>>,
      <<Small(1), Small(2), Small(3), Small(4), Small(5), Small(6)>>,
      <<Small(1), Small(2), Small(3), Small(4), Small(5), Small(6), Small(7), Small(8)>> }

InitNTT ==
    /\ acc = Fr_zero
    /\ pt = G1_identity
    /\ last = [op |-> "new"]
    /\ wire = <<>>
    /\ n = 0
    /\ OthersInit

\* the name and the arguments of the call before this one
Origin ==
    IF last.op = "ntt"
    THEN [op |-> "ntt", inverse |-> last.inverse, input |-> last.input, tag |-> last.tag]
    ELSE IF last.op = "bit_reverse_permute"
    THEN [op |-> "bit_reverse_permute", input |-> last.input]
    ELSE [op |-> last.op]

Load ==
    /\ last.op = "new"
    /\ \E v \in NttInputs :
          /\ coeffs' = v
          /\ last' = [op |-> "load", out |-> v]
    /\ UNCHANGED <<acc, wire, n, pt, pool, monitor, measured>>

Ntt ==
    /\ last.op # "new"
    /\ n < MaxTransforms
    /\ \E inverse \in BOOLEAN :
          LET res == ntt(coeffs, inverse)
          IN  /\ coeffs' = res.coeffs
              /\ last' = [op |-> "ntt", inverse |-> inverse, input |-> coeffs,
                          tag |-> res.tag, output |-> res.coeffs, origin |-> Origin]
    /\ n' = n + 1
    /\ UNCHANGED <<acc, wire, pt, pool, monitor, measured>>

\* bit_reverse_permute is private to the transform, which calls it on arrays
\* whose length is a power of two
BitReversePermute ==
    /\ last.op # "new"
    /\ n < MaxTransforms
    /\ is_power_of_two(Len(coeffs))
    /\ coeffs' = bit_reverse_permute(coeffs)
    /\ last' = [op |-> "bit_reverse_permute", input |-> coeffs, output |-> coeffs',
                origin |-> Origin]
    /\ n' = n + 1
    /\ UNCHANGED <<acc, wire, pt, pool, monitor, measured>>

NextNTT ==
    \/ Load
    \/ Ntt
    \/ BitReversePermute

SpecNTT == InitNTT /\ [][NextNTT]_vars

----------------------------------------------------------------------------
(* The pool program: one TestMemoryPool<u32>.  A run makes a pool, then     *)
(* gets vectors from it and puts vectors of any length and content into it. *)

\* largest capacity and largest max_size of a pool, longest vector put
MaxCapacity == 2
MaxPoolSize == 2
MaxVecLen == 3

\* vectors handed to put: every length up to MaxVecLen, of defaults and of
\* other values
PutInputs == UNION { [1..k -> {0, 7}] : k \in 0..MaxVecLen }

InitPool ==
    /\ acc = Fr_zero
    /\ pt = G1_identity
    /\ wire = <<>>
    /\ n = 0
    /\ coeffs = <<>>
    /\ monitor = TestPerformanceMonitor_new
    /\ measured = <<>>
    /\ \E capacity \in 0..MaxCapacity, max_size \in 0..MaxPoolSize :
          pool = TestMemoryPool_new(capacity, max_size)
    /\ last = [op |-> "new"]

PoolGet ==
    /\ LET res == TestMemoryPool_get(pool)
       IN  /\ pool' = res.self
           /\ last' = [op |-> "get", before |-> pool, out |-> res.out]
    /\ UNCHANGED <<acc, wire, n, pt, coeffs, monitor, measured>>

PoolPut ==
    /\ \E obj \in PutInputs :
          /\ pool' = TestMemoryPool_put(pool, obj)
          /\ last' = [op |-> "put", before |-> pool, obj |-> obj]
    /\ UNCHANGED <<acc, wire, n, pt, coeffs, monitor, measured>>

NextPool ==
    \/ PoolGet
    \/ PoolPut

SpecPool == InitPool /\ [][NextPool]_vars

----------------------------------------------------------------------------
(* The monitor program: one TestPerformanceMonitor.  A run measures         *)
(* closures, each given by the result it returns and the time it takes,    *)
(* and resets the monitor; measured records the results since the last     *)
(* reset.                                                                  *)

\* number of measure calls between two resets
MaxCalls == 3

\* results of the closures measured
MeasureResults ==
    { [tag |-> "Ok", value |-> 42], [tag |-> "Ok", value |-> 0],
      [tag |-> "Err", error |-> "Test error"] }

\* times the closures take, in ticks
Durations == { 1, 2 }

InitMonitor ==
    /\ acc = Fr_zero
    /\ pt = G1_identity
    /\ wire = <<>>
    /\ n = 0
    /\ coeffs = <<>>
    /\ pool = TestMemoryPool_new(0, 0)
    /\ monitor = TestPerformanceMonitor_new
    /\ measured = <<>>
    /\ last = [op |-> "new"]

Measure ==
    /\ Len(measured) < MaxCalls
    /\ \E result \in MeasureResults, duration \in Durations :
          LET res == TestPerformanceMonitor_measure(monitor, result, duration)
          IN  /\ monitor' = res.self
              /\ measured' = Append(measured, result)
              /\ last' = [op |-> "measure", result |-> result, duration |-> duration,
                          before |-> monitor, out |-> res.out]
    /\ UNCHANGED <<acc, wire, n, pt, coeffs, pool>>

Reset ==
    /\ monitor' = TestPerformanceMonitor_reset(monitor)
    /\ measured' = <<>>
    /\ last' = [op |-> "reset", before |-> monitor]
    /\ UNCHANGED <<acc, wire, n, pt, coeffs, pool>>

NextMonitor ==
    \/ Measure
    \/ Reset

SpecMonitor == InitMonitor /\ [][NextMonitor]_vars

----------------------------------------------------------------------------
(* The text program: one field element that is constructed, added to and   *)
(* negated as in the field program, written as text with Display and read  *)
(* back with from_hex; text can also arrive from outside.  wire holds the   *)
(* characters in transit.                                                  *)

\* k times the character c
Repeat(c, k) == [i \in 1..k |-> c]

\* text supplied from outside: 1 with and without the prefix, ff in both
\* cases, a signed digit, a character that is no digit, the bare prefix,
\* 2^64, 2^256 - 1, and 65 digits
HexInputs ==
    { <<"1">>,
      <<"0", "x", "1">>,
      <<"f", "f">>,
      <<"F", "F">>,
      <<"+", "1">>,
      <<"g">>,
      <<"0", "x">>,
      <<"1">> \o Repeat("0", 16),
      Repeat("f", 64),
      Repeat("f", 65) }

HexReceive ==
    /\ Fresh
    /\ \E text \in HexInputs : wire' = text
    /\ last' = [op |-> "receive"]
    /\ UNCHANGED <<acc, n, pt>>
    /\ UNCHANGED others

\* the element held, formatted with {}
Display ==
    /\ wire = <<>>
    /\ wire' = Fr_display(acc)
    /\ last' = [op |-> "display", self |-> acc, out |-> wire']
    /\ UNCHANGED <<acc, n, pt>>
    /\ UNCHANGED others

\* from_hex of the text in transit; on Err the element held stays
FromHex ==
    /\ wire # <<>>
    /\ LET r == Fr_from_hex(wire)
       IN  /\ acc' = IF r.tag = "Ok" THEN r.value ELSE acc
           /\ last' = [op |-> "from_hex", origin |-> last.op, self |-> acc,
                       text |-> wire, out |-> r]
    /\ wire' = <<>>
    /\ UNCHANGED <<n, pt>>
    /\ UNCHANGED others

NextHex ==
    \/ One
    \/ \E val \in U64Inputs : FromU64(val)
    \/ \E limbs \in ArrInputs : FromU64Arr(limbs)
    \/ HexReceive
    \/ Display
    \/ FromHex
    \/ \E other \in Operands : Add(other)
    \/ Neg

SpecHex == Init /\ [][NextHex]_vars

----------------------------------------------------------------------------
(* Properties                                                             *)

\* the operands of the last binary call are canonical
CanonicalOperands == Canonical(last.self) /\ Canonical(last.other)

\* C1: every field element the program holds, whether made by a constructor
\* (from_u64, from_u64_arr, from_bytes_be) or returned by add, sub, mul, neg,
\* square, pow or inverse, is an integer in [0, r)
C1_CanonicalRange == Canonical(acc)

\* C2: for canonical a and b, mul(a, b) is the integer (a * b) mod r, the
\* product being the full double-width product
C2_MulIsModularProduct ==
    (last.op = "mul" /\ CanonicalOperands)
        => Val(last.out) = MulMod(Val(last.self), Val(last.other))

\* C3: for canonical a and b, add(a, b) is the integer (a + b) mod r; it
\* equals add(b, a), adding zero returns a, and for every further operand c
\* add(add(a, b), c) = add(a, add(b, c))
C3_AddIsModularSum ==
    (last.op = "add" /\ CanonicalOperands)
        => /\ Val(last.out) = AddMod(Val(last.self), Val(last.other))
           /\ Fr_add(last.other, last.self) = last.out
           /\ Fr_add(last.self, Fr_zero) = last.self
           /\ \A c \in Operands :
                  Fr_add(last.out, c) = Fr_add(last.self, Fr_add(last.other, c))

\* C3 witness: two canonical operands were added and their integer sum
\* reached r, so that the modulus was subtracted
C3_Witness ==
    /\ last.op = "add"
    /\ CanonicalOperands
    /\ ~NatLt(NatAdd(Val(last.self), Val(last.other)), RVal)

\* C4: for canonical a and b, sub(a, b) is the integer (a - b) mod r, a
\* canonical value also when a < b; and subtracting b from add(a, b) gives a
C4_SubIsModularDifference ==
    /\ (last.op = "sub" /\ CanonicalOperands)
           => /\ Val(last.out) = SubMod(Val(last.self), Val(last.other))
              /\ Canonical(last.out)
    /\ (last.op = "add" /\ CanonicalOperands)
           => Fr_sub(last.out, last.other) = last.self

\* C4 witness: a canonical a was subtracted from by a larger canonical b
C4_Witness ==
    /\ last.op = "sub"
    /\ CanonicalOperands
    /\ NatLt(Val(last.self), Val(last.other))

\* C5: for canonical a, b and c, mul(a, add(b, c)) = add(mul(a, b), mul(a, c))
C5_Distributivity ==
    (last.op = "mul" /\ CanonicalOperands)
        => \A c \in Operands :
               Fr_mul(last.self, Fr_add(last.other, c))
                   = Fr_add(last.out, Fr_mul(last.self, c))

\* C6: for canonical a, b and c, mul(a, b) = mul(b, a),
\* mul(mul(a, b), c) = mul(a, mul(b, c)) and mul(a, one()) = a
C6_MulCommutativeAssociativeUnit ==
    (last.op = "mul" /\ CanonicalOperands)
        => /\ Fr_mul(last.other, last.self) = last.out
           /\ Fr_mul(last.self, Fr_one) = last.self
           /\ \A c \in Operands :
                  Fr_mul(last.out, c) = Fr_mul(last.self, Fr_mul(last.other, c))

\* C7: for a nonzero canonical a, mul(a, inverse(a)) = one()
C7_InverseLaw ==
    (last.op = "inverse" /\ Canonical(last.self) /\ last.out.tag = "value")
        => Fr_mul(last.self, last.out.value) = Fr_one

\* C8: inverse panics exactly when its argument is zero; on every other
\* argument it returns a value
C8_InversePanicsOnlyOnZero ==
    last.op = "inverse"
        => /\ last.out.tag \in {"panic", "value"}
           /\ last.out.tag = "panic" <=> Val(last.self) = NatZero

\* C8 witness: inverse was called on the zero element and panicked
C8_Witness ==
    /\ last.op = "inverse"
    /\ last.self = Fr_zero
    /\ last.out.tag = "panic"

\* C9: from_bytes_be returns Err exactly when the integer the 32 bytes encode
\* is at least r (so r is rejected and r - 1 accepted), and an accepted input
\* gives the element with that integer value
C9_DecodeRejectsFromModulus ==
    last.op = "from_bytes_be"
        => /\ last.out.tag \in {"Ok", "Err"}
           /\ last.out.tag = "Err" <=> ~NatLt(ValOfBytes(last.bytes), RVal)
           /\ last.out.tag = "Ok" => Val(last.out.value) = ValOfBytes(last.bytes)
           /\ last.bytes = BytesOfVal(RVal) => last.out.tag = "Err"
           /\ last.bytes = BytesOfVal(RMinusOne) => last.out.tag = "Ok"

\* C9 witness: the encoding of r itself was decoded and rejected
C9_Witness ==
    /\ last.op = "from_bytes_be"
    /\ last.bytes = BytesOfVal(RVal)
    /\ last.out.tag = "Err"

\* C10: an element written with to_bytes_be and read back with from_bytes_be
\* decodes successfully to the same element
C10_FieldRoundTrip ==
    (last.op = "from_bytes_be" /\ last.origin = "to_bytes_be")
        => last.out = [tag |-> "Ok", value |-> last.self]

----------------------------------------------------------------------------
(* Properties of the point program                                         *)

\* C11: a point written with to_bytes and read back with from_bytes decodes
\* successfully to the same point; this includes identity() and the results
\* of add and mul_scalar
C11_PointRoundTrip ==
    (last.op = "from_bytes" /\ last.origin = "to_bytes")
        => last.out = [tag |-> "Ok", value |-> last.self]

\* C12: for every point p the program holds, add(p, identity()) = p and
\* add(identity(), p) = p, and mul_scalar(p, one()) = p
C12_GroupIdentityLaw ==
    /\ G1_add(pt, G1_identity) = pt
    /\ G1_add(G1_identity, pt) = pt
    /\ (last.op = "mul_scalar" /\ last.scalar = Fr_one) => last.out = last.self

\* C13: for every point p the program holds, the generator among them,
\* add(p, neg(p)) = identity()
C13_GroupInverseLaw == G1_add(pt, G1_neg(pt)) = G1_identity

\* C14: for the generator g and scalars a and b,
\* add(mul_scalar(g, a), mul_scalar(g, b)) = mul_scalar(g, add(a, b))
C14_ScalarMulLinearity ==
    (last.op = "mul_scalar" /\ last.self = G1_generator)
        => \A b \in Scalars :
               G1_add(last.out, G1_mul_scalar(G1_generator, b))
                   = G1_mul_scalar(G1_generator, Fr_add(last.scalar, b))

\* C15: double(p) = add(p, p) = mul_scalar(p, from_u64(2)) for every point p,
\* the identity included
C15_DoubleAgrees ==
    /\ last.op = "double" => G1_add(last.self, last.self) = last.out
    /\ (last.op = "add" /\ last.self = last.other) => last.out = G1_double(last.self)
    /\ (last.op = "mul_scalar" /\ last.scalar = Small(2))
           => /\ last.out = G1_double(last.self)
              /\ last.out = G1_add(last.self, last.self)

\* C15 witness: the generator, a point that is not the identity, was
\* multiplied by the scalar two
C15_Witness ==
    /\ last.op = "mul_scalar"
    /\ last.scalar = Small(2)
    /\ last.self = G1_generator
    /\ ~G1_is_identity(last.out)

\* C16: naive_msm and pippenger_msm give the same outcome on every input:
\* both Err exactly when the lengths differ, and the same Ok point otherwise,
\* the empty input included
C16_MsmEquivalence ==
    /\ last.op = "naive_msm"
           => /\ last.out.tag \in {"Ok", "Err"}
              /\ last.out.tag = "Err" <=> Len(last.points) # Len(last.scalars)
              /\ pippenger_msm(last.points, last.scalars) = last.out
    /\ last.op = "pippenger_msm"
           => /\ last.out.tag \in {"Ok", "Err"}
              /\ last.out.tag = "Err" <=> Len(last.points) # Len(last.scalars)
              /\ naive_msm(last.points, last.scalars) = last.out

\* C16 witness: pippenger_msm returned a point for two points and two scalars
C16_Witness ==
    /\ last.op = "pippenger_msm"
    /\ Len(last.points) = 2
    /\ Len(last.scalars) = 2
    /\ last.out.tag = "Ok"

\* the sum of the first k terms, the last term added last:
\* sum_0 = identity(), sum_k = add(sum_(k-1), terms[k])
RECURSIVE SumOfTerms(_, _)
SumOfTerms(terms, k) ==
    IF k = 0 THEN G1_identity ELSE G1_add(SumOfTerms(terms, k - 1), terms[k])

\* C17: on inputs of equal length naive_msm returns the left fold, in index
\* order from identity(), of the products mul_scalar(points[i], scalars[i]);
\* naive_msm([g, double(g)], [3, 5]) is
\* add(mul_scalar(g, 3), mul_scalar(double(g), 5)) and naive_msm([], []) is
\* identity()
C17_NaiveMsmIsLeftFold ==
    (last.op = "naive_msm" /\ Len(last.points) = Len(last.scalars))
        => LET len == Len(last.points)
               terms == [i \in 1..len |-> G1_mul_scalar(last.points[i], last.scalars[i])]
           IN  /\ last.out = [tag |-> "Ok", value |-> SumOfTerms(terms, len)]
               /\ len = 0 => last.out.value = G1_identity
               /\ len = 2 => last.out.value = G1_add(terms[1], terms[2])

\* C17 witness: naive_msm was called on [g, double(g)] and [3, 5]
C17_Witness ==
    /\ last.op = "naive_msm"
    /\ last.points = <<G1_generator, G1_double(G1_generator)>>
    /\ last.scalars = <<Small(3), Small(5)>>
    /\ last.out.tag = "Ok"

\* C18: add(add(p, q), s) = add(p, add(q, s)) for all points p, q and s
C18_AddAssociative ==
    last.op = "add"
        => \A s \in PointOperands :
               G1_add(last.out, s) = G1_add(last.self, G1_add(last.other, s))

\* the permutations of 1 .. k
Perms(k) == { f \in [1..k -> 1..k] : \A i, j \in 1..k : f[i] = f[j] => i = j }

\* C19: add(p, q) = add(q, p) for all points p and q, and naive_msm returns
\* the same point when one permutation is applied to both input sequences
C19_AddCommutativeMsmOrder ==
    /\ last.op = "add" => G1_add(last.other, last.self) = last.out
    /\ (last.op = "naive_msm" /\ last.out.tag = "Ok")
           => \A f \in Perms(Len(last.points)) :
                  naive_msm([i \in 1..Len(last.points) |-> last.points[f[i]]],
                            [i \in 1..Len(last.points) |-> last.scalars[f[i]]])
                      = last.out

\* the elements of a set of numbers in increasing order
Ascending(S) ==
    CHOOSE f \in [1..Cardinality(S) -> S] :
        \A i, j \in 1..Cardinality(S) : i < j => f[i] < f[j]

\* the partial sums of the contiguous chunks that the cut positions make of
\* the input: chunk i holds the indices ends[i] + 1 .. ends[i + 1]
PartialSums(points, scalars, cuts) ==
    LET ends == Ascending({0, Len(points)} \cup cuts)
    IN  [i \in 1..(Len(ends) - 1) |->
            naive_msm(SubSeq(points, ends[i] + 1, ends[i + 1]),
                      SubSeq(scalars, ends[i] + 1, ends[i + 1])).value]

\* C20: for every partition of the indices into contiguous chunks and every
\* order in which the chunks complete, adding up the chunks' naive_msm
\* results in that order gives naive_msm of the whole input
C20_DataParallelMsm ==
    (last.op = "naive_msm" /\ last.out.tag = "Ok")
        => \A cuts \in SUBSET (1..(Len(last.points) - 1)) :
               LET partial == PartialSums(last.points, last.scalars, cuts)
               IN  \A f \in Perms(Len(partial)) :
                       SumOfTerms([i \in 1..Len(partial) |-> partial[f[i]]], Len(partial))
                           = last.out.value

----------------------------------------------------------------------------
(* Properties of the transform program                                     *)

\* the last call was ntt in the given direction and returned Ok
NttDone(inverse) ==
    last.op = "ntt" /\ last.tag = "Ok" /\ last.inverse = inverse

\* the call before the last was a forward ntt that returned Ok
AfterForward ==
    last.origin.op = "ntt" /\ last.origin.tag = "Ok" /\ ~last.origin.inverse

\* (k * u) mod r for an integer u < r, by k additions
RECURSIVE TimesMod(_, _)
TimesMod(u, k) == IF k = 0 THEN NatZero ELSE AddMod(TimesMod(u, k - 1), u)

\* C21: a forward ntt followed by an inverse ntt on the same array restores
\* every element of the array
C21_NttRoundTrip ==
    (NttDone(TRUE) /\ AfterForward) => last.output = last.origin.input

\* k is a power of two: 1, 2, 4, ...
IsPowerOfTwo(k) == \E e \in 0..k : 2 ^ e = k

\* C22: ntt returns Err exactly when the length of the array is not a power
\* of two (0 is rejected, 1 is accepted), and then leaves the array as it was
C22_NttLengthCheck ==
    last.op = "ntt"
        => /\ last.tag = "Err" <=> ~IsPowerOfTwo(Len(last.input))
           /\ last.tag = "Err" => (last.output = last.input /\ coeffs = last.input)

\* C22: ntt was called on the empty array and returned Err
C22_Witness ==
    last.op = "ntt" /\ last.input = <<>> /\ last.tag = "Err" /\ coeffs = <<>>

\* C23: every element of the inverse transform of an array, multiplied by
\* the length n, is the element of the forward transform of that array at
\* the same index, modulo r
C23_InverseScaling ==
    NttDone(TRUE)
        => \A i \in 1..Len(last.input) :
               TimesMod(Val(last.output[i]), Len(last.input))
                   = Val(ntt(last.input, FALSE).coeffs[i])

\* the number whose bits low binary digits are those of i in reverse order
RECURSIVE Rev(_, _)
Rev(i, bits) ==
    IF bits = 0 THEN 0 ELSE (i % 2) * (2 ^ (bits - 1)) + Rev(i \div 2, bits - 1)

\* the k with 2^k = len
Log2(len) == CHOOSE e \in 0..len : 2 ^ e = len

\* C27: bit_reverse_permute puts at every index i the element that was at
\* the index whose k binary digits are those of i reversed, and applying it
\* twice restores the array
C27_BitReversal ==
    last.op = "bit_reverse_permute"
        => /\ \A i \in 0..(Len(last.input) - 1) :
                  last.output[i + 1] = last.input[Rev(i, Log2(Len(last.input))) + 1]
           /\ last.origin.op = "bit_reverse_permute" => last.output = last.origin.input

\* C27: an array of 8 elements was permuted twice, and the second
\* permutation moved elements
C27_Witness ==
    /\ last.op = "bit_reverse_permute"
    /\ last.origin.op = "bit_reverse_permute"
    /\ Len(last.input) = 8
    /\ last.output # last.input

\* C30: two forward transforms in a row give every element of the array
\* multiplied by the length n, modulo r
C30_ForwardTwice ==
    (NttDone(FALSE) /\ AfterForward)
        => \A i \in 1..Len(last.output) :
               Val(last.output[i]) = TimesMod(Val(last.origin.input[i]), Len(last.output))

\* C30: two forward transforms in a row of an array of four elements, one
\* of them r - 1
C30_Witness ==
    /\ NttDone(FALSE)
    /\ AfterForward
    /\ Len(last.output) = 4
    /\ last.origin.input[1] = FrOfVal(RMinusOne)

----------------------------------------------------------------------------
(* Properties of the point program: decoding and the identity              *)

\* C24, as stated: from_bytes returns Err exactly when the buffer is not 64
\* bytes long, and every buffer of 64 bytes decodes to a point with z = one()
\* whose to_bytes() is the buffer
C24_LengthOnlyCheck ==
    last.op = "from_bytes"
        => /\ last.out.tag = "Err" <=> Len(last.bytes) # 64
           /\ Len(last.bytes) = 64
                 => /\ last.out.tag = "Ok"
                    /\ last.out.value.z = Fr_one
                    /\ G1_to_bytes(last.out.value) = last.bytes

\* the 32 bytes from position k on encode an integer below r
HalfInRange(bytes, k) == NatLt(ValOfBytes(SubSeq(bytes, k, k + 31)), RVal)

\* C24, amended: from_bytes returns Err exactly when the buffer is not 64
\* bytes long or one of its two halves encodes an integer that is not below
\* r; every buffer it accepts decodes to a point with z = one() whose
\* to_bytes() is the buffer
C24_LengthAndRangeCheck ==
    last.op = "from_bytes"
        => /\ last.out.tag = "Err"
                 <=> \/ Len(last.bytes) # 64
                     \/ ~HalfInRange(last.bytes, 1)
                     \/ ~HalfInRange(last.bytes, 33)
           /\ last.out.tag = "Ok"
                 => /\ last.out.value.z = Fr_one
                    /\ G1_to_bytes(last.out.value) = last.bytes

\* C24: from_bytes refused a buffer of 64 bytes
C24_Witness ==
    last.op = "from_bytes" /\ Len(last.bytes) = 64 /\ last.out.tag = "Err"

\* C28: every point held for which is_identity() is true is identity(), the
\* point (0, 1, 0)
C28_CanonicalIdentity == G1_is_identity(pt) => pt = G1_identity

----------------------------------------------------------------------------
(* Properties of the pool program and of the monitor program               *)

\* C25: size() never exceeds max_size; a put at size() = max_size leaves the
\* pool as it was and a put below it makes size() one larger; every vector
\* returned by get has length capacity
C25_MemoryPoolBound ==
    /\ TestMemoryPool_size(pool) <= pool.max_size
    /\ last.op = "put"
          => IF TestMemoryPool_size(last.before) = last.before.max_size
             THEN pool = last.before
             ELSE TestMemoryPool_size(pool) = TestMemoryPool_size(last.before) + 1
    /\ last.op = "get" => Len(last.out) = pool.capacity

\* C25: a vector longer than capacity was put into a pool that is full and
\* holds at least one vector
C25_Witness ==
    /\ last.op = "put"
    /\ TestMemoryPool_size(last.before) = last.before.max_size
    /\ last.before.max_size > 0
    /\ Len(last.obj) > pool.capacity

\* the number of Err among the first k results
RECURSIVE ErrCount(_, _)
ErrCount(results, k) ==
    IF k = 0 THEN 0
    ELSE ErrCount(results, k - 1) + (IF results[k].tag = "Err" THEN 1 ELSE 0)

\* C26: operations_count is the number of measure calls since the last
\* reset and error_count the number of those that returned Err, which is at
\* most operations_count; measure returns the result of the closure; after
\* reset both counters and total_time are zero
C26_MonitorCounters ==
    LET metrics == TestPerformanceMonitor_get_metrics(monitor)
    IN  /\ metrics.operations_count = Len(measured)
        /\ metrics.error_count = ErrCount(measured, Len(measured))
        /\ metrics.error_count <= metrics.operations_count
        /\ last.op = "measure" => last.out = last.result
        /\ last.op = "reset"
              => /\ metrics.operations_count = 0
                 /\ metrics.error_count = 0
                 /\ metrics.total_time = 0

\* C26: a closure that returned Err was measured after one that returned Ok
C26_Witness ==
    /\ last.op = "measure"
    /\ last.result.tag = "Err"
    /\ Len(measured) >= 2
    /\ measured[1].tag = "Ok"
    /\ monitor.metrics.error_count >= 1

----------------------------------------------------------------------------
(* Properties of the text program                                          *)

\* the value 0..15 of a hexadecimal digit
DigitOf(c) == CHOOSE v \in 0..15 : LowerHex[v + 1] = c \/ UpperHex[v + 1] = c

IsHexDigit(c) == \E v \in 0..15 : LowerHex[v + 1] = c \/ UpperHex[v + 1] = c

\* the value of the digit j places from the right end of the text, 0 beyond
\* its left end
PlaceValue(text, j) == IF j >= Len(text) THEN 0 ELSE DigitOf(text[Len(text) - j])

\* the integer a text of at most 64 hexadecimal digits denotes
HexNumber(text) ==
    [k \in NatIdx |-> PlaceValue(text, 4 * (k - 1))
                      + 16 * PlaceValue(text, 4 * (k - 1) + 1)
                      + 256 * PlaceValue(text, 4 * (k - 1) + 2)
                      + 4096 * PlaceValue(text, 4 * (k - 1) + 3)]

\* C29: from_hex of the Display text of a canonical element returns that
\* element, and from_hex of a text of at most 64 hexadecimal digits returns
\* the element of the integer the text denotes (reduced modulo r)
C29_HexRoundTrip ==
    last.op = "from_hex"
        => /\ (last.origin = "display" /\ Canonical(last.self))
                 => last.out = [tag |-> "Ok", value |-> last.self]
           /\ (Len(last.text) <= 64 /\ \A k \in 1..Len(last.text) : IsHexDigit(last.text[k]))
                 => /\ last.out.tag = "Ok"
                    /\ Val(last.out.value) = NatModOnce(NatModOnce(HexNumber(last.text)))

====
